---- MODULE Spec2Model ----
(***************************************************************************)
(* Model of the pdm crate (src/src/lib.rs): a second-order pulse-density   *)
(* modulator.  Pdm<T> holds a setpoint `value` and two integrator          *)
(* registers `sigma`; update() advances both registers and returns one     *)
(* bit.  The integer instantiations are generated by gen_unsigned_impl!    *)
(* and gen_signed_impl!; the model enumerates the two 8-bit ones, u8 and   *)
(* i8, whose registers are i16, with the widths the code gives them.       *)
(*                                                                         *)
(* Integer overflow in Rust is decided by the build: with overflow checks  *)
(* (debug profile, `cargo test`) the operation panics, without them        *)
(* (release profile) it wraps modulo 2^16.  `checks` is the build.         *)
(***************************************************************************)
EXTENDS Integers, Sequences, FiniteSets, TLC

VARIABLES
    dom,        \* the value type T the engine is instantiated for
    checks,     \* TRUE: overflow checks compiled in (panic), FALSE: wrapping
    value,      \* Pdm.value
    sigma,      \* Pdm.sigma, a pair <<sigma[0], sigma[1]>> (1-based here)
    panicked,   \* an update() has panicked on arithmetic overflow
    ovf,        \* some intermediate sum of some update() left the i16 range
    wrapped,    \* number of update() calls made since the first overflow
    last,       \* the most recent call: [op, arg, ret]
    pre,        \* value and sigma right before the most recent call
    nupd,       \* number of update() calls that returned, up to MaxUpdates
    nsets,      \* number of set_value calls made, up to MaxSets
    err,        \* sum of the setpoints in force minus sum of the bit levels
    iter,       \* loop index of the density test
    avg,        \* accumulator `avg` of the density test
    bits,       \* the bits the last two update() calls returned, oldest first
    peer,       \* a second engine of the same type: [value, sigma, bits]
    solo        \* the second engine as it would be with no first engine

engine == <<value, sigma, panicked, ovf, wrapped>>
history == <<last, pre, nupd, nsets, err, bits>>
harness == <<iter, avg>>
build == <<dom, checks>>
others == <<peer, solo>>
vars == <<dom, checks, value, sigma, panicked, ovf, wrapped, last, pre,
          nupd, nsets, err, iter, avg, bits, peer, solo>>

(***************************************************************************)
(* Bounds of the model.                                                    *)
(***************************************************************************)
\* set_value calls of a run that changes the setpoint between long runs of
\* update()
MaxSets == 1
\* update() calls of a run that may call set_value before every one of them
MaxUpdates == 4
\* update() calls followed after the first wrapped overflow
MaxWrapped == 2
\* iterations of the density test that are followed
MaxIter == 300
\* update() calls of the second engine
MaxPeerUpdates == 2

(***************************************************************************)
(* The numeric domains.                                                    *)
(***************************************************************************)
Domains == {"u8", "i8"}

Signed(d) == d = "i8"

\* <$T>::MAX
MAX(d) == IF d = "u8" THEN 255 ELSE 127

\* <$T>::MIN
MIN(d) == IF d = "u8" THEN 0 ELSE -128

\* every value of the value type
TypeRange(d) == MIN(d)..MAX(d)

\* the documented setpoint range: 0..=MAX unsigned, -MAX..=MAX signed
Documented(d) == IF Signed(d) THEN (-MAX(d))..MAX(d) ELSE 0..MAX(d)

\* the accumulator type i16
SigmaMin == -32768
SigmaMax == 32767
SigmaMod == 65536

InSigma(x) == SigmaMin <= x /\ x <= SigmaMax

\* two's-complement wrap of an i16 operation without overflow checks
Wrap(x) == ((x - SigmaMin) % SigmaMod) + SigmaMin

\* as Widen, a signed byte zero-extended too
WidenZeroExtend(d, v) == v % 256

\* `self.value as $S`: the byte of the value, zero-extended for an unsigned
\* type and sign-extended for a signed one
Widen(d, v) ==
    LET byte == v % 256
    IN  IF Signed(d) /\ byte >= 128 THEN byte - 256 ELSE byte

(***************************************************************************)
(* i16 expressions, evaluated left to right.  Each yields the wrapped      *)
(* result and whether an intermediate sum left the i16 range.              *)
(***************************************************************************)
\* x + y
Add2(x, y) == [val |-> Wrap(x + y), over |-> ~InSigma(x + y)]

\* x + y + z, i.e. (x + y) + z
Add3(x, y, z) ==
    LET a == Add2(x, y)
        b == Add2(a.val, z)
    IN  [val |-> b.val, over |-> a.over \/ b.over]

(***************************************************************************)
(* update(): the new registers, computed as the two macros compute them.   *)
(***************************************************************************)
\* as SignedSigmaNew, the second stage fed with the old sigma[0]
SignedSigmaNewStale(d, s, v) ==
    IF s[2] >= 0
    THEN LET n0 == Add3(s[1], Widen(d, v), -MAX(d))
             n1 == Add3(s[2], s[1], -MAX(d))
         IN  [sigma |-> <<n0.val, n1.val>>, over |-> n0.over \/ n1.over]
    ELSE LET n0 == Add3(s[1], Widen(d, v), MAX(d))
             n1 == Add3(s[2], s[1], MAX(d))
         IN  [sigma |-> <<n0.val, n1.val>>, over |-> n0.over \/ n1.over]

\* as UnsignedSigmaNew, MAX subtracted whatever the sign of sigma[1]
UnsignedSigmaNewNoBranch(d, s, v) ==
    LET n0 == Add3(s[1], Widen(d, v), -MAX(d))
        n1 == Add3(s[2], n0.val, -MAX(d))
    IN  [sigma |-> <<n0.val, n1.val>>, over |-> n0.over \/ n1.over]

\* as UnsignedSigmaNew, a sigma[1] of zero taken for negative
UnsignedSigmaNewStrict(d, s, v) ==
    IF s[2] > 0
    THEN LET n0 == Add3(s[1], Widen(d, v), -MAX(d))
             n1 == Add3(s[2], n0.val, -MAX(d))
         IN  [sigma |-> <<n0.val, n1.val>>, over |-> n0.over \/ n1.over]
    ELSE LET n0 == Add2(s[1], Widen(d, v))
             n1 == Add2(s[2], n0.val)
         IN  [sigma |-> <<n0.val, n1.val>>, over |-> n0.over \/ n1.over]

\* as SignedSigmaNew, the branch of a negative sigma[1] copied from the
\* unsigned macro
SignedSigmaNewCopied(d, s, v) ==
    IF s[2] >= 0
    THEN LET n0 == Add3(s[1], Widen(d, v), -MAX(d))
             n1 == Add3(s[2], n0.val, -MAX(d))
         IN  [sigma |-> <<n0.val, n1.val>>, over |-> n0.over \/ n1.over]
    ELSE LET n0 == Add2(s[1], Widen(d, v))
             n1 == Add2(s[2], n0.val)
         IN  [sigma |-> <<n0.val, n1.val>>, over |-> n0.over \/ n1.over]

UnsignedSigmaNew(d, s, v) ==
    IF s[2] >= 0
    THEN LET n0 == Add3(s[1], Widen(d, v), -MAX(d))
             n1 == Add3(s[2], n0.val, -MAX(d))
         IN  [sigma |-> <<n0.val, n1.val>>, over |-> n0.over \/ n1.over]
    ELSE LET n0 == Add2(s[1], Widen(d, v))
             n1 == Add2(s[2], n0.val)
         IN  [sigma |-> <<n0.val, n1.val>>, over |-> n0.over \/ n1.over]

SignedSigmaNew(d, s, v) ==
    IF s[2] >= 0
    THEN LET n0 == Add3(s[1], Widen(d, v), -MAX(d))
             n1 == Add3(s[2], n0.val, -MAX(d))
         IN  [sigma |-> <<n0.val, n1.val>>, over |-> n0.over \/ n1.over]
    ELSE LET n0 == Add3(s[1], Widen(d, v), MAX(d))
             n1 == Add3(s[2], n0.val, MAX(d))
         IN  [sigma |-> <<n0.val, n1.val>>, over |-> n0.over \/ n1.over]

SigmaNew(d, s, v) ==
    IF Signed(d) THEN SignedSigmaNew(d, s, v) ELSE UnsignedSigmaNew(d, s, v)

\* the value the averaging loops of the tests give a returned bit
Level(d, bit) == IF bit THEN MAX(d) ELSE IF Signed(d) THEN -MAX(d) ELSE 0

(***************************************************************************)
(* Construction.                                                           *)
(***************************************************************************)
\* gen_unsigned_impl: new()
UnsignedNew == [value |-> 0, sigma |-> <<0, 0>>]

\* as SignedDefault, the registers started at MAX
SignedDefaultBiased == [value |-> 0, sigma |-> <<127, 127>>]

\* gen_signed_impl: Default::default()
SignedDefault == [value |-> 0, sigma |-> <<0, 0>>]

\* gen_signed_impl: new() is Default::default()
SignedNew == SignedDefault

\* the ways to construct a Pdm<T>
Constructors(d) ==
    IF Signed(d) THEN {SignedNew, SignedDefault} ELSE {UnsignedNew}

New ==
    \E pdm \in Constructors(dom) :
        /\ value = pdm.value
        /\ sigma = pdm.sigma

Init ==
    /\ dom \in Domains
    /\ checks \in BOOLEAN
    /\ New
    /\ panicked = FALSE
    /\ ovf = FALSE
    /\ wrapped = 0
    /\ last = [op |-> "new", arg |-> 0, ret |-> FALSE]
    /\ pre = [value |-> 0, sigma |-> <<0, 0>>]
    /\ nupd = 0
    /\ nsets = 0
    /\ err = 0
    /\ iter = 0
    /\ avg = 0
    /\ bits = <<>>
    /\ \E pdm \in Constructors(dom) :
           /\ peer = [value |-> pdm.value, sigma |-> pdm.sigma, bits |-> <<>>]
           /\ solo = peer

\* the engine is dropped and another one constructed, of any type
Construct ==
    /\ ~panicked
    /\ \E d \in Domains :
         \E pdm \in Constructors(d) :
           /\ dom' = d
           /\ value' = pdm.value
           /\ sigma' = pdm.sigma
    /\ last' = [op |-> "new", arg |-> 0, ret |-> FALSE]
    /\ pre' = [value |-> value, sigma |-> sigma]
    /\ ovf' = FALSE
    /\ wrapped' = 0
    /\ nupd' = 0
    /\ nsets' = 0
    /\ err' = 0
    /\ bits' = <<>>
    /\ UNCHANGED <<checks, panicked>>
    /\ UNCHANGED harness
    /\ UNCHANGED others

(***************************************************************************)
(* set_value(v)                                                            *)
(***************************************************************************)
\* as SetValue, the setpoint clamped to the documented range
SetValueClamped(v) ==
    /\ ~panicked
    /\ value' = IF v < -MAX(dom) THEN -MAX(dom) ELSE v
    /\ last' = [op |-> "set_value", arg |-> v, ret |-> FALSE]
    /\ pre' = [value |-> value, sigma |-> sigma]
    /\ nsets' = IF nsets < MaxSets THEN nsets + 1 ELSE nsets
    /\ UNCHANGED <<sigma, panicked, ovf, wrapped, nupd, err, bits>>
    /\ UNCHANGED build
    /\ UNCHANGED others

SetValue(v) ==
    /\ ~panicked
    /\ value' = v
    /\ last' = [op |-> "set_value", arg |-> v, ret |-> FALSE]
    /\ pre' = [value |-> value, sigma |-> sigma]
    /\ nsets' = IF nsets < MaxSets THEN nsets + 1 ELSE nsets
    /\ UNCHANGED <<sigma, panicked, ovf, wrapped, nupd, err, bits>>
    /\ UNCHANGED build
    /\ UNCHANGED others

(***************************************************************************)
(* update()                                                                *)
(***************************************************************************)
\* as UpdateFrame, the setpoint consumed by the step
UpdateFrameConsumes ==
    /\ value' = 0
    /\ UNCHANGED nsets
    /\ UNCHANGED build
    /\ UNCHANGED others

\* as UpdateFrame, the new registers kept in a place all engines share
UpdateFrameShared ==
    /\ UNCHANGED <<value, nsets>>
    /\ UNCHANGED build
    /\ peer' = [peer EXCEPT !.sigma = sigma']
    /\ UNCHANGED solo

\* what update() leaves alone: it assigns self.sigma and nothing else
UpdateFrame ==
    /\ UNCHANGED <<value, nsets>>
    /\ UNCHANGED build
    /\ UNCHANGED others

\* as Bit, zero taken for negative
BitStrict(s) == s[2] > 0

\* the returned bit: self.sigma[1] >= 0
Bit(s) == s[2] >= 0

\* the last two of the returned bits
Window(bs) == IF Len(bs) > 2 THEN Tail(bs) ELSE bs

UpdateEngine ==
    /\ ~panicked
    /\ wrapped < MaxWrapped
    /\ LET r == SigmaNew(dom, sigma, value)
           bit == Bit(r.sigma)
       IN  /\ ovf' = (ovf \/ r.over)
           /\ wrapped' = IF ovf \/ r.over THEN wrapped + 1 ELSE wrapped
           /\ pre' = [value |-> value, sigma |-> sigma]
           /\ IF r.over /\ checks
              THEN /\ panicked' = TRUE
                   /\ last' = [op |-> "update", arg |-> 0, ret |-> FALSE]
                   /\ UNCHANGED <<sigma, err, nupd, bits>>
              ELSE /\ panicked' = FALSE
                   /\ sigma' = r.sigma
                   /\ last' = [op |-> "update", arg |-> 0, ret |-> bit]
                   /\ err' = err + value - Level(dom, bit)
                   /\ bits' = Window(Append(bits, bit))
                   /\ nupd' = IF nupd < MaxUpdates THEN nupd + 1 ELSE nupd
    /\ UpdateFrame

Update ==
    /\ UpdateEngine
    /\ UNCHANGED harness

(***************************************************************************)
(* The callers.                                                            *)
(***************************************************************************)
\* the setpoints a short run chooses from: the boundaries of the type and of
\* the documented range, zero, and the setpoints of test_u8 and test_i8
Setpoints(d) == IF Signed(d) THEN {-128, -127, -42, 0, 127} ELSE {0, 1, 42, 255}

\* the setpoints a long run switches between: the documented boundaries
SwitchPoints(d) == IF Signed(d) THEN {-127, 0, 127} ELSE {0, 255}

\* set_value at any time between two steps
SetAny ==
    /\ \E v \in Setpoints(dom) : SetValue(v)
    /\ UNCHANGED harness

\* one of the first MaxUpdates update() calls
UpdateEarly ==
    /\ nupd < MaxUpdates
    /\ Update

\* set_value between two long runs of update()
SetSwitch ==
    /\ nsets < MaxSets
    /\ \E v \in SwitchPoints(dom) : SetValue(v)
    /\ UNCHANGED harness

\* set_value once, before the first update(), then held
SetOnce ==
    /\ nsets = 0
    /\ nupd = 0
    /\ \E v \in TypeRange(dom) : SetValue(v)
    /\ UNCHANGED harness

(***************************************************************************)
(* The density tests (gen_unsigned_test!, gen_signed_test!): new(),        *)
(* set_value(setpoint), then a loop that calls update() and adds the level *)
(* of the returned bit to avg.  A panic of update() aborts the test.       *)
(***************************************************************************)
\* the iteration count of test_u8 and test_i8
Iterations == 500000

TestSet ==
    /\ nsets = 0
    /\ nupd = 0
    /\ iter = 0
    /\ \E v \in Documented(dom) : SetValue(v)
    /\ UNCHANGED harness

TestStep ==
    /\ last.op # "new"
    /\ iter < MaxIter
    /\ UpdateEngine
    /\ IF panicked'
       THEN UNCHANGED harness
       ELSE /\ iter' = iter + 1
            /\ avg' = avg + Level(dom, last'.ret)

\* the assertion of the tests: ratio = (avg / iterations) / setpoint lies in
\* [0.99, 1.01].  A zero setpoint makes the ratio NaN or infinite, and every
\* comparison with it false.
RatioOK(a, n, v) ==
    /\ v # 0
    /\ IF v > 0
       THEN 99 * n * v <= 100 * a /\ 100 * a <= 101 * n * v
       ELSE 101 * n * v <= 100 * a /\ 100 * a <= 99 * n * v

\* any interleaving of set_value and update(), MaxUpdates steps deep
Next == SetAny \/ UpdateEarly

Spec == Init /\ [][Next]_vars

\* update() without end, the setpoint changed at most MaxSets times
NextSwitch == SetSwitch \/ Update

SpecSwitch == Init /\ [][NextSwitch]_vars

\* update() without end, the setpoint held constant
NextConst == SetOnce \/ Update

SpecConst == Init /\ [][NextConst]_vars

\* update() without end, the setpoint held at a boundary of the documented
\* range; the caller never stops calling update()
SetBoundary ==
    /\ nsets = 0
    /\ nupd = 0
    /\ \E v \in {MAX(dom), IF Signed(dom) THEN -MAX(dom) ELSE 0} : SetValue(v)
    /\ UNCHANGED harness

NextBoundary == SetBoundary \/ Update

\* a build with overflow checks (the dev and test profiles): its runs are
\* followed without a bound, up to the panic if there is one
InitChecked == Init /\ checks

FairSpecBoundary == InitChecked /\ [][NextBoundary]_vars /\ WF_vars(Update)

\* update() without end on an engine whose setpoint is never set
FairSpecZero == InitChecked /\ [][Update]_vars /\ WF_vars(Update)

\* the density test
NextTest == TestSet \/ TestStep

SpecTest == Init /\ [][NextTest]_vars

(***************************************************************************)
(* Properties.                                                             *)
(***************************************************************************)
Abs(x) == IF x < 0 THEN -x ELSE x

\* the lower boundary of the documented range
DocMin(d) == IF Signed(d) THEN -MAX(d) ELSE 0

\* the most recent call was an update() that returned bit b
Returned(b) == last.op = "update" /\ ~panicked /\ last.ret = b

\* C1: with a constant setpoint of the documented range no intermediate sum
\* of any update() leaves the range of the accumulator type.
C1_NoOverflowConstant == value \in Documented(dom) => ~ovf

\* C2: the density test passes for every setpoint of the documented range:
\* its 500,000 update() calls all return, and the ratio of the averaged
\* levels to the setpoint then lies within 1% of 1.
C2_DensityConvergence ==
    /\ ~panicked
    /\ iter = Iterations => RatioOK(avg, iter, value)

\* C3: whatever documented setpoints set_value puts in force between the
\* steps, no update() makes an intermediate sum leave the accumulator range.
C3_NoOverflowInterleaved ==
    [][last'.op = "update" => ~SigmaNew(dom, sigma, value).over]_vars

\* C4: with the setpoint held at the documented maximum every update() from
\* some step on returns true, and with the setpoint held at the documented
\* minimum every update() from some step on returns false.
C4_BoundarySetpoints ==
    <>[](/\ value = MAX(dom) => Returned(TRUE)
         /\ value = DocMin(dom) => Returned(FALSE))

\* C5: with the setpoint left at zero, an unsigned engine returns true only
\* finitely often, and a signed engine keeps the difference between the
\* numbers of true and false results bounded (err = -MAX * difference).
C5_ZeroSetpoint ==
    /\ <>[](~Signed(dom) => Returned(FALSE))
    /\ [](Signed(dom) => ~panicked /\ Abs(err) <= 2 * MAX(dom))

\* the last update() left sigma[0] where it was and moved sigma[1] away from
\* zero on the side it was on: with the setpoint held, every later update()
\* takes the same branch and repeats the same move
Runaway ==
    /\ last.op = "update"
    /\ ~panicked
    /\ pre.value = value
    /\ sigma[1] = pre.sigma[1]
    /\ \/ pre.sigma[2] >= 0 /\ sigma[2] > pre.sigma[2]
       \/ pre.sigma[2] < 0 /\ sigma[2] < pre.sigma[2]

\* C6: with a constant setpoint of the documented range the cumulative error
\* and both registers stay within bounds that do not depend on the number of
\* steps: the registers never run away, no sum leaves the accumulator range,
\* and the error stays within the accumulator range widened by 2 * MAX.
C6_BoundedError ==
    value \in Documented(dom) =>
        /\ ~Runaway
        /\ ~ovf
        /\ Abs(err) <= SigmaMax + 2 * MAX(dom)

(***************************************************************************)
(* The unified step algorithm and its table of correction constants, in    *)
(* the arithmetic of the accumulator type.                                 *)
(***************************************************************************)
delta_pos(d) == IF Signed(d) THEN MAX(d) ELSE 0

delta_neg(d) == -MAX(d)

Step(d, s, v) ==
    LET delta == IF s[2] >= 0 THEN delta_neg(d) ELSE delta_pos(d)
        n0 == Add3(s[1], v, delta)
        n1 == Add3(s[2], n0.val, delta)
    IN  [sigma |-> <<n0.val, n1.val>>, over |-> n0.over \/ n1.over,
         bit |-> n1.val >= 0]

\* C8: update() is the unified step algorithm with the table constants: from
\* every reachable state and for every setpoint the registers it computes
\* (and whether a sum overflows) are those of the step algorithm, and every
\* update() that returned left the registers and returned the bit of the
\* step algorithm applied to the registers and setpoint it started from.
C8_UnifiedStep ==
    /\ \A v \in Setpoints(dom) :
           LET r == SigmaNew(dom, sigma, v)
               u == Step(dom, sigma, v)
           IN  r.sigma = u.sigma /\ r.over = u.over
    /\ (last.op = "update" /\ ~panicked) =>
           LET u == Step(dom, pre.sigma, pre.value)
           IN  sigma = u.sigma /\ last.ret = u.bit

\* an update() of a signed engine took the branch of a negative sigma[1]
\* with a nonzero sigma[0] and a nonzero setpoint
C8_Witness ==
    /\ Signed(dom)
    /\ last.op = "update"
    /\ ~panicked
    /\ pre.sigma[2] < 0
    /\ pre.sigma[1] # 0
    /\ pre.value # 0
    /\ nupd >= 2

\* C9: set_value(v) is possible for every value of the value type, stores
\* it, leaves both registers (and the overflow state) alone, and the next
\* update() adds the setpoint stored last.
C9_SetValueFrame ==
    /\ ~panicked =>
           \A v \in TypeRange(dom) : ENABLED (SetValue(v) /\ UNCHANGED harness)
    /\ last.op = "set_value" =>
           /\ value = last.arg
           /\ sigma = pre.sigma
           /\ ~panicked
    /\ (last.op = "update" /\ ~panicked /\ ~ovf) =>
           sigma[1] = pre.sigma[1] + value
                        + (IF pre.sigma[2] >= 0 THEN delta_neg(dom)
                                                ELSE delta_pos(dom))

\* set_value(-128) replaced another setpoint of a running i8 engine
C9_Witness ==
    /\ Signed(dom)
    /\ last.op = "set_value"
    /\ last.arg = MIN(dom)
    /\ value = -128
    /\ pre.value # value
    /\ nupd >= 1
    /\ sigma # <<0, 0>>

\* C10: update() leaves the setpoint as it found it.
C10_UpdateKeepsValue == last.op = "update" => value = pre.value

\* an update() moved both registers of an engine with a nonzero setpoint
C10_Witness ==
    /\ last.op = "update"
    /\ ~panicked
    /\ value # 0
    /\ sigma[1] # pre.sigma[1]
    /\ sigma[2] # pre.sigma[2]
    /\ nupd >= 2

(***************************************************************************)
(* Construction after other engines were used.                             *)
(***************************************************************************)
\* any interleaving of set_value, update() and the construction of another
\* engine
NextNew == SetAny \/ UpdateEarly \/ Construct

SpecNew == Init /\ [][NextNew]_vars

\* C11: new(), and Default::default() of the signed types, yield value = 0
\* and sigma = [0, 0] for every type, whatever engine was used before.
C11_Construction ==
    /\ \A d \in Domains : \A pdm \in Constructors(d) :
           pdm.value = 0 /\ pdm.sigma = <<0, 0>>
    /\ last.op = "new" => value = 0 /\ sigma = <<0, 0>>

\* an engine was constructed after another one had been set and stepped
C11_Witness ==
    /\ last.op = "new"
    /\ pre.value # 0
    /\ pre.sigma[1] # 0
    /\ pre.sigma[2] # 0
    /\ Signed(dom)

(***************************************************************************)
(* Two engines of one caller.  The second engine is a Pdm of the same type *)
(* and runs the same set_value and update().                               *)
(***************************************************************************)
\* the setpoints of a run with two engines: the boundaries of the type
PairPoints(d) == {MIN(d), MAX(d)}

SetPair ==
    /\ \E v \in PairPoints(dom) : SetValue(v)
    /\ UNCHANGED harness

\* set_value(v) on an engine e = [value, sigma, bits]
PdmSetValue(e, v) == [e EXCEPT !.value = v]

\* update() on an engine e = [value, sigma, bits]
PdmUpdate(e) ==
    LET r == SigmaNew(dom, e.sigma, e.value)
    IN  [value |-> e.value, sigma |-> r.sigma,
         bits |-> Append(e.bits, Bit(r.sigma))]

PeerSetValue ==
    /\ ~panicked
    /\ \E v \in PairPoints(dom) :
           /\ peer' = PdmSetValue(peer, v)
           /\ solo' = PdmSetValue(solo, v)
    /\ UNCHANGED engine
    /\ UNCHANGED history
    /\ UNCHANGED harness
    /\ UNCHANGED build

PeerUpdate ==
    /\ ~panicked
    /\ Len(solo.bits) < MaxPeerUpdates
    /\ peer' = PdmUpdate(peer)
    /\ solo' = PdmUpdate(solo)
    /\ UNCHANGED engine
    /\ UNCHANGED history
    /\ UNCHANGED harness
    /\ UNCHANGED build

NextPair == SetPair \/ UpdateEarly \/ PeerSetValue \/ PeerUpdate

SpecPair == Init /\ [][NextPair]_vars

\* C12: the calls on one engine leave the other engine's value and registers
\* alone, and the other engine returns the bits it returns when it is driven
\* by its own calls only; and the calls on the other engine leave the first
\* one alone.
C12_Independence ==
    /\ [](peer = solo)
    /\ [][(peer' # peer) => (engine' = engine /\ last' = last)]_vars

\* both engines have been set and stepped, the first one last, and differ
C12_Witness ==
    /\ Len(peer.bits) = MaxPeerUpdates
    /\ last.op = "update"
    /\ nupd >= 2
    /\ peer.value # value
    /\ peer.sigma # sigma
    /\ peer.sigma # <<0, 0>>

(***************************************************************************)
(* The feedback, the register ranges and the error accounting.             *)
(***************************************************************************)
\* the bit the most recent update() that returned has returned
LastBit == bits[Len(bits)]

\* the correction the most recent update() added to sigma[0]
Correction == sigma[1] - pre.sigma[1] - pre.value

\* C13: the bit an update() returns is (stored sigma[1] >= 0), also after
\* later set_value calls; so every update() but the first applies -MAX
\* exactly when the update() before it returned true (else 0 unsigned, +MAX
\* signed), and the first one after new() applies -MAX.
C13_Feedback ==
    /\ (last.op = "update" /\ ~panicked) => last.ret = (sigma[2] >= 0)
    /\ nupd >= 1 => LastBit = (sigma[2] >= 0)
    /\ (last.op = "update" /\ ~panicked /\ ~ovf) =>
           IF nupd = 1
           THEN Correction = -MAX(dom)
           ELSE Correction = IF bits[1] THEN -MAX(dom) ELSE delta_pos(dom)

\* an update() followed one that had returned true and left sigma[1] = 0
C13_Witness ==
    /\ last.op = "update"
    /\ ~panicked
    /\ nupd >= 2
    /\ bits[1] = TRUE
    /\ pre.sigma[2] = 0
    /\ value # 0
    /\ nsets >= 1

\* C14: a u8 engine with a constant setpoint in 1..=255 never overflows its
\* i16 registers.
C14_UnsignedPositive ==
    (dom = "u8" /\ value \in 1..255) => ~ovf /\ ~panicked

\* the deepest excursion of sigma[1], at setpoint 1
C14_Witness ==
    /\ dom = "u8"
    /\ value = 1
    /\ last.op = "update"
    /\ sigma[2] = -32640
    /\ ~ovf

\* C15: an i8 engine with a constant setpoint in -126..=126 never overflows
\* its i16 registers.
C15_SignedInterior ==
    (dom = "i8" /\ value \in (-126)..126) => ~ovf /\ ~panicked

\* the deepest excursion of sigma[1], at setpoint -126
C15_Witness ==
    /\ dom = "i8"
    /\ value = -126
    /\ last.op = "update"
    /\ sigma[2] = -8255
    /\ ~ovf

\* C16: while no sum has overflowed, after every update() sigma[0] + MAX
\* minus the level of the last returned bit is the sum of the setpoints in
\* force at the updates minus the sum of the levels of the returned bits,
\* whatever set_value calls came in between.
C16_ErrorAccounting ==
    (nupd >= 1 /\ ~ovf) =>
        sigma[1] + MAX(dom) - Level(dom, LastBit) = err

\* the setpoint was changed from 0 to 255 between updates of a u8 engine
C16_Witness ==
    /\ dom = "u8"
    /\ last.op = "update"
    /\ nsets = 1
    /\ value = 255
    /\ sigma[1] = 1275
    /\ err # 0
    /\ ~ovf

\* C17: the first update() of a fresh engine, with any documented setpoint,
\* returns false and leaves sigma = [v - MAX, v - 2 * MAX].
C17_FirstBit ==
    (nupd = 1 /\ last.op = "update" /\ ~panicked
        /\ value \in Documented(dom)) =>
        /\ last.ret = FALSE
        /\ sigma = <<value - MAX(dom), value - 2 * MAX(dom)>>

\* the first update() of an engine set to MAX
C17_Witness ==
    /\ nupd = 1
    /\ last.op = "update"
    /\ ~panicked
    /\ nsets = 1
    /\ value = MAX(dom)
    /\ sigma = <<0, -MAX(dom)>>

====
